---------------------------- MODULE Spec2Model ----------------------------
(***************************************************************************)
(* Model of pkg/promtail/targets/tailer.go: one tail session at a time on  *)
(* one log file, its event loop (run), the owner's calls (newTailer, stop, *)
(* cleanup), the positions store and the metrics the tailer updates.       *)
(*                                                                         *)
(* Three tasks interleave: the goroutine of the line source (the           *)
(* hpcloud/tail reader that feeds t.tail.Lines), the event loop started by *)
(* "go tailer.run()", and the owner that calls stop and cleanup.  A step   *)
(* of a task is one action; a task's position is lpc, pc or spc.           *)
(***************************************************************************)
EXTENDS Integers, Sequences, FiniteSets, TLC

\* ------------------------------------------------------------------ bounds
MaxLines == 2          \* lines ever appended to the log file
MaxSessions == 2       \* sessions constructed one after the other
MaxStopCalls == 2      \* calls of stop on one session

\* ------------------------------------------------------------- the inputs
RegularPath == "/var/log/app.log"      \* a regular file
SymlinkPath == "/var/log/current"      \* a symbolic link to RegularPath
MissingPath == "/var/log/missing"      \* no such file: Lstat fails
Paths == {RegularPath, SymlinkPath, MissingPath}
Labels == {RegularPath, SymlinkPath}
\* The i-th line appended to the file, newline stripped: "a", "bb", "ccc", ...
Letters == <<"a", "b", "c", "d", "e", "f", "g", "h">>
TextOf(i) == [k \in 1..i |-> Letters[i]]

NoLine == [text |-> <<>>, time |-> 0, err |-> FALSE]
NoOffset == -1

VARIABLES
    file,         \* the log file: the sequence of its lines
    positions,    \* positions.Positions: path -> offset, DOMAIN = keys held
    filesActive,  \* gauge files_active
    totalBytes,   \* gauge total_bytes{path}
    readLines,    \* counter lines_read{path}
    readBytes,    \* counter bytes_read{path}
    sess,         \* number of sessions constructed so far
    path,         \* t.path: the requested path
    filename,     \* t.filename: the resolved path
    reOpen,       \* tail.Config.ReOpen of the session's source
    quit,         \* t.quit is closed
    done,         \* t.done is closed
    lpc,          \* line source: "none", "read", "send", "dead" (stopped),
                  \* "failed" (ended by an error of its own)
    libPos,       \* offset of the line source's reader
    pend,         \* the line the source is sending on t.tail.Lines
    dying,        \* the source was told to stop (tomb is dying)
    pc,           \* event loop: "none", "select", "handle", "tickTell",
                  \* "tickPut", "logStat", "logTell", "logHandle", "exited"
    cur,          \* the line the loop received and has not handled yet
    tickPos,      \* pos of the loop's markPosition between Tell and Put
    spc,          \* stop: "idle", "tell", "put", "kill", "wait", "close",
                  \* "join", "returned"
    stopPos,      \* pos of stop's markPosition between Tell and Put
    stopCalls,    \* calls of stop on this session
    stopErr,      \* err of stop: "nil", "tellErr" (of markPosition),
                  \* "tailErr" (of t.tail.Stop())
    ret,          \* what the owner's last call returned
    panicked,     \* the process panicked (close of a closed channel)
    received,     \* history: lines the loop of this session received
    handled,      \* history: calls of this session's wrapped handler
    errFwd,       \* history: a line with Err set was handed to the handler
    baseLines,    \* history: lines_read when this session was constructed
    baseBytes,    \* history: bytes_read when this session was constructed
    startOff,     \* history: Location.Offset the session's source opened at
    tickPutOff,   \* history: offset the last tick wrote since stop was called
    stopPutOff,   \* history: offset this call of stop wrote
                  \* (both kept until stop returns)
    cleaned,      \* history: cleanup was called on this session: "no",
                  \* "early" (before stop had returned), "after"
    marked,       \* history: this call of stop has called markPosition
    joined        \* history: calls of stop, on any session, that got past
                  \* <-t.done

vars == <<file, positions, filesActive, totalBytes, readLines, readBytes,
          sess, path, filename, reOpen, quit, done, lpc, libPos, pend, dying,
          pc, cur, tickPos, spc, stopPos, stopCalls, stopErr, ret, panicked,
          received, handled, errFwd, baseLines, baseBytes, startOff,
          tickPutOff, stopPutOff, cleaned, marked, joined>>

metricVars == <<filesActive, totalBytes, readLines, readBytes>>
sessVars == <<sess, path, filename, reOpen>>
libVars == <<lpc, libPos, pend, dying>>
loopVars == <<pc, cur, tickPos>>
stopVars == <<spc, stopPos, stopCalls, stopErr>>
startVars == <<startOff, baseLines, baseBytes>>
histVars == <<received, handled, errFwd, startVars, tickPutOff, stopPutOff,
              cleaned, marked, joined>>

\* ------------------------------------------------------- the file system
IsSymlink(p) == p = SymlinkPath
Readlink(p) == RegularPath

RECURSIVE SizeOf(_)
SizeOf(ls) == IF ls = <<>> THEN 0 ELSE Len(Head(ls)) + 1 + SizeOf(Tail(ls))

FileSize == SizeOf(file)
StartOf(i) == SizeOf(SubSeq(file, 1, i - 1))
LineAt(off) == {i \in 1..Len(file) : StartOf(i) = off}

\* ------------------------------------------------- positions.Positions
PositionsGet(pos, p) == IF p \in DOMAIN pos THEN pos[p] ELSE 0
\* Variant: Put keeps the larger of the old and the new offset.
PositionsPut_KeepMax(pos, p, off) ==
    [x \in (DOMAIN pos) \cup {p} |->
        IF x = p THEN (IF p \in DOMAIN pos /\ pos[p] > off THEN pos[p] ELSE off)
        ELSE pos[x]]

PositionsPut(pos, p, off) ==
    [x \in (DOMAIN pos) \cup {p} |-> IF x = p THEN off ELSE pos[x]]
PositionsRemove(pos, p) == [x \in (DOMAIN pos) \ {p} |-> pos[x]]

Init ==
    /\ file = <<>>
    /\ positions = [x \in {} |-> 0]
    /\ filesActive = 0
    /\ totalBytes = [l \in Labels |-> 0]
    /\ readLines = [l \in Labels |-> 0]
    /\ readBytes = [l \in Labels |-> 0]
    /\ sess = 0
    /\ path = ""
    /\ filename = ""
    /\ reOpen = FALSE
    /\ quit = FALSE
    /\ done = FALSE
    /\ lpc = "none"
    /\ libPos = 0
    /\ pend = NoLine
    /\ dying = FALSE
    /\ pc = "none"
    /\ cur = NoLine
    /\ tickPos = NoOffset
    /\ spc = "idle"
    /\ stopPos = NoOffset
    /\ stopCalls = 0
    /\ stopErr = "nil"
    /\ ret = "none"
    /\ panicked = FALSE
    /\ received = <<>>
    /\ handled = <<>>
    /\ errFwd = FALSE
    /\ baseLines = [l \in Labels |-> 0]
    /\ baseBytes = [l \in Labels |-> 0]
    /\ startOff = 0
    /\ tickPutOff = NoOffset
    /\ stopPutOff = NoOffset
    /\ cleaned = "no"
    /\ marked = FALSE
    /\ joined = 0

\* A writer appends one line to the log file.
AppendLine ==
    /\ ~panicked
    /\ Len(file) < MaxLines
    /\ file' = Append(file, TextOf(Len(file) + 1))
    /\ UNCHANGED <<positions, metricVars, sessVars, quit, done, libVars,
                   loopVars, stopVars, ret, panicked, histVars>>

\* ------------------------------------------------------------ newTailer
\* filename := path, replaced by the link's target when path is a symlink.
ResolvedName(p) == IF IsSymlink(p) THEN Readlink(p) ELSE p

\* reOpen is set in the symlink branch only.
ReOpenOf(p) == IsSymlink(p)

\* Variant: the store is asked for the requested path.
LocationOffset_ByPath(pos, p, fname) == PositionsGet(pos, p)

\* Location.Offset: positions.Get(filename).
LocationOffset(pos, p, fname) == PositionsGet(pos, fname)

\* Variant: the entries are labelled with the resolved path.
HandlerLabel_Resolved(p, fname) == fname

\* The label the AddLabelsMiddleware adds to every entry: the requested path.
HandlerLabel(p, fname) == p

\* The label value of the per-path metrics: t.path.
MetricLabel(p, fname) == p

\* The texts the wrapped handler of session s was called with.
RECURSIVE FwdBytes(_)
FwdBytes(h) ==
    IF h = <<>> THEN 0 ELSE Len(Head(h).text) + 1 + FwdBytes(Tail(h))

\* The byte position right after the last line this session forwarded.
FwdPos == startOff + FwdBytes(handled)

\* The owner is done with the previous session (or there was none).
NoLiveSession == sess = 0 \/ spc = "returned"

\* The paths the owner asks for: any path for the first session, and for a
\* later session the path of the session before it (or one that is missing).
OwnerPaths == {q \in Paths : sess = 0 \/ q = path \/ q = MissingPath}

\* Variant: the gauge is raised before TailFile is known to have succeeded.
ActiveOnOpenError_CountedEarly(n) == n + 1

\* files_active when TailFile fails: filesActive.Add(1.) comes after the
\* return of the error, so the gauge keeps its value.
ActiveOnOpenError(n) == n

NewTailer ==
    /\ ~panicked
    /\ NoLiveSession
    /\ sess < MaxSessions
    /\ \E p \in OwnerPaths, readlinkOk \in BOOLEAN, openOk \in BOOLEAN :
         IF p = MissingPath
         THEN /\ ret' = "lstat"
              /\ UNCHANGED <<positions, metricVars, sessVars, quit, done,
                             libVars, loopVars, stopVars, histVars>>
         ELSE IF IsSymlink(p) /\ ~readlinkOk
         THEN /\ ret' = "readlink"
              /\ UNCHANGED <<positions, metricVars, sessVars, quit, done,
                             libVars, loopVars, stopVars, histVars>>
         ELSE IF ~openOk
         THEN /\ ret' = "open"
              /\ filesActive' = ActiveOnOpenError(filesActive)
              /\ UNCHANGED <<positions, totalBytes, readLines, readBytes,
                             sessVars, quit, done, libVars, loopVars,
                             stopVars, histVars>>
         ELSE LET fname == ResolvedName(p)
                  off == LocationOffset(positions, p, fname)
              IN /\ path' = p
                 /\ filename' = fname
                 /\ reOpen' = ReOpenOf(p)
                 /\ sess' = sess + 1
                 /\ quit' = FALSE
                 /\ done' = FALSE
                 /\ lpc' = "read"
                 /\ libPos' = off
                 /\ pend' = NoLine
                 /\ dying' = FALSE
                 /\ pc' = "select"
                 /\ cur' = NoLine
                 /\ tickPos' = NoOffset
                 /\ spc' = "idle"
                 /\ stopPos' = NoOffset
                 /\ stopCalls' = 0
                 /\ stopErr' = "nil"
                 /\ filesActive' = filesActive + 1
                 /\ ret' = "ok"
                 /\ startOff' = off
                 /\ tickPutOff' = NoOffset
                 /\ stopPutOff' = NoOffset
                 /\ cleaned' = "no"
                 /\ marked' = FALSE
                 /\ received' = <<>>
                 /\ handled' = <<>>
                 /\ errFwd' = FALSE
                 /\ baseLines' = readLines
                 /\ baseBytes' = readBytes
                 /\ UNCHANGED <<positions, totalBytes, readLines, readBytes,
                                joined>>
    /\ UNCHANGED <<file, panicked>>

\* ------------------------------------------------- the line source (tail)
\* time.Now() when the source sends the i-th line of the file: the stamps
\* grow with the lines.
StampOf(i) == 10 * i

\* The source's goroutine reads the next line of the file at its offset and
\* stamps it; it then blocks sending it on the unbuffered channel Lines.
LibRead ==
    /\ ~panicked
    /\ lpc = "read"
    /\ \E i \in LineAt(libPos), e \in BOOLEAN :
         /\ pend' = [text |-> file[i], time |-> StampOf(i), err |-> e]
         /\ libPos' = libPos + Len(file[i]) + 1
    /\ lpc' = "send"
    /\ UNCHANGED <<file, positions, metricVars, sessVars, quit, done, dying,
                   loopVars, stopVars, ret, panicked, histVars>>

\* The source's goroutine sees that it was told to stop: it closes Lines and
\* its file.
LibExit ==
    /\ ~panicked
    /\ lpc = "read"
    /\ dying
    /\ lpc' = "dead"
    /\ UNCHANGED <<file, positions, metricVars, sessVars, quit, done, libPos,
                   pend, dying, loopVars, stopVars, ret, panicked,
                   histVars>>

\* The source's goroutine ends on an error of its own (a failed read of the
\* file): it closes Lines and its file and keeps the error for Stop.
LibFail ==
    /\ ~panicked
    /\ lpc = "read"
    /\ lpc' = "failed"
    /\ UNCHANGED <<file, positions, metricVars, sessVars, quit, done, libPos,
                   pend, dying, loopVars, stopVars, ret, panicked,
                   histVars>>

\* The source has closed the channel Lines.
LinesClosed == lpc \in {"dead", "failed"}

\* Variant: Tell reports the offset the source was opened at.
TellResults_Stale ==
    {[err |-> TRUE, pos |-> NoOffset], [err |-> FALSE, pos |-> startOff]}

\* t.tail.Tell(): an error, or the offset of the source's reader.  Once the
\* source has closed its file the offset it reports is the reader's last
\* offset or 0 (hpcloud/tail returns 0 when its file is nil).
TellResults ==
    {[err |-> TRUE, pos |-> NoOffset]}
    \cup {[err |-> FALSE, pos |-> o] :
            o \in IF LinesClosed THEN {0, libPos} ELSE {libPos}}

\* ------------------------------------------------------------------- run
\* Variant: a failed stat only skips the gauge; the tick still marks.
AfterStat_MarkAnyway(ok) == "tickTell"

\* Where a tick goes after os.Stat: on to the gauge and markPosition, or to
\* the log of the error and continue (lines 91-95).
AfterStat(ok) == IF ok THEN "tickTell" ELSE "logStat"

\* case <-positionWait.C: the stat; on success the gauge is set, on failure
\* the error is logged and the tick ends (continue).
TickStat ==
    /\ ~panicked
    /\ pc = "select"
    /\ \E ok \in BOOLEAN :
         IF ok
         THEN /\ totalBytes' =
                   [totalBytes EXCEPT ![MetricLabel(path, filename)] = FileSize]
              /\ pc' = AfterStat(TRUE)
         ELSE /\ pc' = AfterStat(FALSE)
              /\ UNCHANGED totalBytes
    /\ UNCHANGED <<file, positions, filesActive, readLines, readBytes, sessVars,
                   quit, done, libVars, cur, tickPos, stopVars, ret, panicked,
                   histVars>>

\* markPosition called by the loop, first half: pos, err := t.tail.Tell().
TickTell ==
    /\ ~panicked
    /\ pc = "tickTell"
    /\ \E r \in TellResults :
         IF ~r.err
         THEN /\ tickPos' = r.pos
              /\ pc' = "tickPut"
         ELSE /\ pc' = "logTell"
              /\ UNCHANGED tickPos
    /\ UNCHANGED <<file, positions, metricVars, sessVars, quit, done, libVars,
                   cur, stopVars, ret, panicked, histVars>>

\* markPosition called by the loop, second half: t.positions.Put.
TickPut ==
    /\ ~panicked
    /\ pc = "tickPut"
    /\ positions' = PositionsPut(positions, filename, tickPos)
    /\ tickPutOff' = IF spc = "idle" THEN tickPutOff ELSE tickPos
    /\ tickPos' = NoOffset
    /\ pc' = "select"
    /\ UNCHANGED <<file, metricVars, sessVars, quit, done, libVars, cur,
                   stopVars, ret, panicked, received, handled, errFwd,
                   startVars, joined, stopPutOff, cleaned, marked>>

\* Variant: the stripped newline is not counted.
LineBytes_NoNewline(text) == Len(text)

\* What a line adds to bytes_read: its text and the stripped newline.
LineBytes(text) == Len(text) + 1

\* case line, ok := <-t.tail.Lines with ok: the loop takes the line the source
\* is sending, logs its error if it has one, and counts it.  The source goes
\* on, or ends if it was told to stop.
LoopRecv ==
    /\ ~panicked
    /\ pc = "select"
    /\ lpc = "send"
    /\ cur' = pend
    /\ pend' = NoLine
    /\ lpc' = IF dying THEN "dead" ELSE "read"
    /\ readLines' = [readLines EXCEPT ![MetricLabel(path, filename)] = @ + 1]
    /\ readBytes' = [readBytes EXCEPT
                       ![MetricLabel(path, filename)] = @ + LineBytes(pend.text)]
    /\ received' = Append(received, [text |-> pend.text, time |-> pend.time])
    /\ pc' = "handle"
    /\ UNCHANGED <<file, positions, filesActive, totalBytes, sessVars, quit,
                   done, libPos, dying, tickPos, stopVars, ret, panicked,
                   handled, errFwd, startVars, joined, tickPutOff, stopPutOff,
                   cleaned, marked>>

\* Variant: the entry is stamped with the current time, not the line's.
HandleArgs_Now(line) == [text |-> line.text, time |-> line.time + 1]

\* The arguments of Handle: line.Time and line.Text.
HandleArgs(line) == [text |-> line.text, time |-> line.time]

\* t.handler.Handle(model.LabelSet{}, line.Time, line.Text); the wrapped
\* handler adds the path label.  An error is logged.
LoopHandle ==
    /\ ~panicked
    /\ pc = "handle"
    /\ handled' = Append(handled,
           [label |-> HandlerLabel(path, filename),
            text |-> HandleArgs(cur).text, time |-> HandleArgs(cur).time])
    /\ errFwd' = (errFwd \/ cur.err)
    /\ cur' = NoLine
    /\ \E ok \in BOOLEAN : pc' = IF ok THEN "select" ELSE "logHandle"
    /\ UNCHANGED <<file, positions, metricVars, sessVars, quit, done, libVars,
                   tickPos, stopVars, ret, panicked, received, startVars, joined,
                   tickPutOff, stopPutOff, cleaned, marked>>

\* Variant: a failed stat ends the loop.
AfterLog_StatReturns(at) == IF at = "logStat" THEN "exited" ELSE "select"

\* Where the loop goes after it logged an error: continue (lines 94, 100) or
\* the end of the case (line 119), the next iteration of the for either way.
AfterLog(at) == "select"

\* level.Error(t.logger).Log(...) of a tick or handler error; the loop then
\* selects again.
LoopLog ==
    /\ ~panicked
    /\ pc \in {"logStat", "logTell", "logHandle"}
    /\ pc' = AfterLog(pc)
    /\ UNCHANGED <<file, positions, metricVars, sessVars, quit, done, libVars,
                   cur, tickPos, stopVars, ret, panicked, histVars>>

\* Variant: done is closed on the quit path only.
DoneOnReturn_QuitOnly(viaQuit) == viaQuit

\* The deferred function of run closes t.done on every return.
DoneOnReturn(viaQuit) == TRUE

\* case line, ok := <-t.tail.Lines with !ok: return; the deferred function
\* stops the ticker and closes t.done.
LoopLinesClosed ==
    /\ ~panicked
    /\ pc = "select"
    /\ LinesClosed
    /\ pc' = "exited"
    /\ done' = DoneOnReturn(FALSE)
    /\ UNCHANGED <<file, positions, metricVars, sessVars, quit, libVars, cur,
                   tickPos, stopVars, ret, panicked, histVars>>

\* case <-t.quit: return; the deferred function closes t.done.
LoopQuit ==
    /\ ~panicked
    /\ pc = "select"
    /\ quit
    /\ pc' = "exited"
    /\ done' = DoneOnReturn(TRUE)
    /\ UNCHANGED <<file, positions, metricVars, sessVars, quit, libVars, cur,
                   tickPos, stopVars, ret, panicked, histVars>>

\* ------------------------------------------------------------------ stop
\* Variant: stop goes straight to t.tail.Stop().
StopFirstStep_SkipMark == "kill"

\* The owner calls stop; its first statement is markPosition.
StopFirstStep == "tell"

StopCall ==
    /\ ~panicked
    /\ sess > 0
    /\ spc \in {"idle", "returned"}
    /\ stopCalls < MaxStopCalls
    /\ stopCalls' = stopCalls + 1
    /\ spc' = StopFirstStep
    /\ marked' = FALSE
    /\ UNCHANGED <<file, positions, metricVars, sessVars, quit, done, libVars,
                   loopVars, stopPos, stopErr, ret, panicked, received,
                   handled, errFwd, startVars, joined, tickPutOff, stopPutOff, cleaned>>

\* err := t.markPosition(), first half; stop logs an error and goes on.
StopTell ==
    /\ ~panicked
    /\ spc = "tell"
    /\ \E r \in TellResults :
         IF ~r.err
         THEN /\ stopPos' = r.pos
              /\ stopErr' = "nil"
              /\ spc' = "put"
         ELSE /\ stopErr' = "tellErr"
              /\ spc' = "kill"
              /\ UNCHANGED stopPos
    /\ marked' = TRUE
    /\ UNCHANGED <<file, positions, metricVars, sessVars, quit, done, libVars,
                   loopVars, stopCalls, ret, panicked, received,
                   handled, errFwd, startVars, joined, tickPutOff, stopPutOff, cleaned>>

\* markPosition called by stop, second half.
StopPut ==
    /\ ~panicked
    /\ spc = "put"
    /\ positions' = PositionsPut(positions, filename, stopPos)
    /\ stopPutOff' = stopPos
    /\ stopPos' = NoOffset
    /\ spc' = "kill"
    /\ UNCHANGED <<file, metricVars, sessVars, quit, done, libVars, loopVars,
                   stopCalls, stopErr, ret, panicked, received, handled,
                   errFwd, startVars, joined, tickPutOff, cleaned, marked>>

\* err = t.tail.Stop(), first half: the source is told to stop.
StopKill ==
    /\ ~panicked
    /\ spc = "kill"
    /\ dying' = TRUE
    /\ spc' = "wait"
    /\ UNCHANGED <<file, positions, metricVars, sessVars, quit, done, lpc,
                   libPos, pend, loopVars, stopPos, stopCalls, stopErr,
                   ret, panicked, histVars>>

\* Variant: the error of markPosition is kept when there is one.
ErrAfterTailStop_KeepFirst(err, tailErr) == IF err # "nil" THEN err ELSE tailErr

\* err = t.tail.Stop() overwrites the err that markPosition returned.
ErrAfterTailStop(err, tailErr) == tailErr

\* err = t.tail.Stop(), second half: it returns when the source's goroutine
\* has ended, with the source's error.
StopWait ==
    /\ ~panicked
    /\ spc = "wait"
    /\ LinesClosed
    /\ stopErr' = ErrAfterTailStop(stopErr,
                                   IF lpc = "failed" THEN "tailErr" ELSE "nil")
    /\ spc' = "close"
    /\ UNCHANGED <<file, positions, metricVars, sessVars, quit, done, libVars,
                   loopVars, stopPos, stopCalls, ret, panicked,
                   histVars>>

\* close(t.quit); closing a closed channel panics.
StopCloseQuit ==
    /\ ~panicked
    /\ spc = "close"
    /\ IF quit
       THEN /\ panicked' = TRUE
            /\ UNCHANGED <<quit, spc>>
       ELSE /\ quit' = TRUE
            /\ spc' = "join"
            /\ UNCHANGED panicked
    /\ UNCHANGED <<file, positions, metricVars, sessVars, done, libVars,
                   loopVars, stopPos, stopCalls, stopErr, ret,
                   histVars>>

\* Variant: stop leaves the gauge alone.
ActiveAfterJoin_Unchanged(n) == n

\* filesActive.Add(-1.) once stop is past <-t.done.
ActiveAfterJoin(n) == n - 1

\* <-t.done; filesActive.Add(-1.); return err.
StopJoin ==
    /\ ~panicked
    /\ spc = "join"
    /\ done
    /\ filesActive' = ActiveAfterJoin(filesActive)
    /\ joined' = joined + 1
    /\ ret' = stopErr
    /\ spc' = "returned"
    /\ tickPutOff' = NoOffset
    /\ stopPutOff' = NoOffset
    /\ UNCHANGED <<file, positions, totalBytes, readLines, readBytes, sessVars,
                   quit, done, libVars, loopVars, stopPos, stopCalls, stopErr,
                   panicked, received, handled, errFwd, startVars, cleaned,
                   marked>>

\* --------------------------------------------------------------- cleanup
\* Variant: cleanup removes the entry of the requested path.
CleanupKey_ByPath(p, fname) == p

\* The key cleanup removes: t.filename.
CleanupKey(p, fname) == fname

Cleanup ==
    /\ ~panicked
    /\ sess > 0
    /\ spc \in {"idle", "returned"}
    /\ positions' = PositionsRemove(positions, CleanupKey(path, filename))
    /\ cleaned' = IF spc = "returned" THEN "after" ELSE "early"
    /\ UNCHANGED <<file, metricVars, sessVars, quit, done, libVars, loopVars,
                   stopVars, ret, panicked, received, handled, errFwd,
                   startVars, joined, tickPutOff, stopPutOff, marked>>

Next ==
    \/ AppendLine
    \/ NewTailer
    \/ LibRead
    \/ LibExit
    \/ LibFail
    \/ TickStat
    \/ TickTell
    \/ TickPut
    \/ LoopRecv
    \/ LoopHandle
    \/ LoopLog
    \/ LoopLinesClosed
    \/ LoopQuit
    \/ StopCall
    \/ StopTell
    \/ StopPut
    \/ StopKill
    \/ StopWait
    \/ StopCloseQuit
    \/ StopJoin
    \/ Cleanup

Spec == Init /\ [][Next]_vars

\* The goroutines are scheduled.  The source's goroutine, told to stop, ends
\* (t.tail.Stop() returns).  The loop's goroutine finishes the case it is in
\* (Tell, Put, Handle and the logger return), and its select, which chooses
\* at random among the ready cases while the ticker is ready only once per
\* SyncPeriod, takes a case that is ready again and again: a line offered, quit
\* closed, Lines closed.  The owner's goroutine goes through the statements of
\* stop.  Nothing obliges the owner to call, the writer to append, the ticker
\* to fire or an error to happen.
FairSpec ==
    /\ Spec
    /\ WF_vars(LibExit)
    /\ WF_vars(TickTell)
    /\ WF_vars(TickPut)
    /\ WF_vars(LoopHandle)
    /\ WF_vars(LoopLog)
    /\ SF_vars(LoopRecv)
    /\ SF_vars(LoopLinesClosed)
    /\ SF_vars(LoopQuit)
    /\ WF_vars(StopTell)
    /\ WF_vars(StopPut)
    /\ WF_vars(StopKill)
    /\ WF_vars(StopWait)
    /\ WF_vars(StopCloseQuit)
    /\ WF_vars(StopJoin)

\* ------------------------------------------ one session, no I/O error
\* The first session is constructed: nothing has written the store yet.
QuietNewTailer == NewTailer /\ sess = 0 /\ ret' = "ok"

\* The source reads a line without a read error.
QuietLibRead == LibRead /\ ~pend'.err

\* A tick whose os.Stat succeeds.
QuietTickStat == TickStat /\ pc' = "tickTell"

\* A markPosition of the loop whose Tell succeeds.
QuietTickTell == TickTell /\ pc' = "tickPut"

QuietNext ==
    \/ AppendLine
    \/ QuietNewTailer
    \/ QuietLibRead
    \/ QuietTickStat
    \/ QuietTickTell
    \/ TickPut
    \/ LoopRecv
    \/ LoopHandle
    \/ LoopLog

\* The session runs with nobody stopping it.  The source's goroutine and the
\* loop's goroutine are scheduled: the source reads a line that is there
\* and the loop finishes the case it is in.  The ticker fires every
\* SyncPeriod and select chooses at random among the cases that are ready, so
\* a tick that stays possible is taken, and so is a line that is offered again
\* and again.  Nothing obliges the writer to append or the owner to construct.
QuietSpec ==
    /\ Init
    /\ [][QuietNext]_vars
    /\ WF_vars(QuietLibRead)
    /\ WF_vars(QuietTickStat)
    /\ WF_vars(QuietTickTell)
    /\ WF_vars(TickPut)
    /\ SF_vars(LoopRecv)
    /\ WF_vars(LoopHandle)
    /\ WF_vars(LoopLog)

TypeOK ==
    /\ lpc \in {"none", "read", "send", "dead", "failed"}
    /\ pc \in {"none", "select", "handle", "tickTell", "tickPut", "logStat",
              "logTell", "logHandle", "exited"}
    /\ spc \in {"idle", "tell", "put", "kill", "wait", "close", "join",
               "returned"}
    /\ sess \in 0..MaxSessions
    /\ Len(file) <= MaxLines

\* ------------------------------------------------------------ properties
Max(a, b) == IF a >= b THEN a ELSE b

\* The entry the store holds for the session's resolved path, 0 if none.
Stored == PositionsGet(positions, filename)

\* The resolved path of a requested path, spelled out.
ResolvedOf(p) == IF p = SymlinkPath THEN RegularPath ELSE p

\* C1: the offset stored under the resolved path is never beyond the byte
\* position right after the last line the session handed to the handler.
C1_StoredNotAhead == sess > 0 => Stored <= FwdPos

\* C2: a session constructed after stop returned on the previous one (and no
\* cleanup was called on it) starts at the byte position right after the last
\* line the previous session handed to the handler.
C2_ResumeWhereForwarded ==
    [][(sess' = sess + 1 /\ sess >= 1 /\ cleaned = "no") => libPos' = FwdPos]_vars

\* C3: every call of stop calls markPosition before it stops the source and
\* before it closes quit; stop returns only when done is closed and the loop
\* has exited; once stop has returned, no handler call, no metric update and
\* no write of the store entry happens (the entry can only be removed).
C3_StopMarksThenJoins ==
    /\ [][(spc' = "wait" /\ spc # "wait") => marked]_vars
    /\ [][(quit' /\ ~quit) => marked]_vars
    /\ [](spc = "returned" => (done /\ pc = "exited"))
    /\ [][(spc = "returned" /\ spc' = "returned") =>
            /\ handled' = handled
            /\ readLines' = readLines
            /\ readBytes' = readBytes
            /\ totalBytes' = totalBytes
            /\ (positions' = positions \/ filename \notin DOMAIN positions')]_vars

C3_Witness ==
    /\ spc = "returned"
    /\ marked
    /\ Len(handled) > 0
    /\ Stored > 0

\* C4: when a tick wrote the entry while stop was being called and stop's
\* final markPosition wrote it too, the entry after stop returned is the
\* larger of the two offsets.
C4_FinalIsLater ==
    [][(/\ spc = "join"
        /\ spc' = "returned"
        /\ stopCalls = 1
        /\ cleaned = "no"
        /\ tickPutOff # NoOffset
        /\ stopPutOff # NoOffset) => Stored' = Max(tickPutOff, stopPutOff)]_vars

\* C5: only the event loop reads the source's position and writes the entry:
\* the task that calls stop never holds a position it read and never wrote
\* the entry.
C5_OnlyLoopMarks == spc # "put" /\ stopPutOff = NoOffset

\* C6 as stated: once cleanup was called on a session, in whatever order with
\* stop, the next session on the path starts at offset zero.
C6_AnyOrder ==
    [][(sess' = sess + 1 /\ cleaned # "no") => libPos' = 0]_vars

\* C6 as amended: when cleanup is called after stop has returned, the entry of
\* the resolved path is absent and the next session on the path starts at
\* offset zero.
C6_CleanupAfterStop ==
    /\ []((cleaned = "after" /\ spc = "returned") =>
            filename \notin DOMAIN positions)
    /\ [][(sess' = sess + 1 /\ cleaned = "after") => libPos' = 0]_vars

C6_Witness ==
    /\ cleaned = "after"
    /\ spc = "returned"
    /\ FwdPos > 0
    /\ path = SymlinkPath
    /\ filename \notin DOMAIN positions

\* C7: the handler was called once for each line the loop received, with the
\* line's own text and timestamp, in the order of receipt; only the line being
\* handled is still to come, also after read errors and handler failures.
C7_ForwardedOnceInOrder ==
    LET fw == [i \in 1..Len(handled) |->
                 [text |-> handled[i].text, time |-> handled[i].time]]
    IN IF pc = "handle"
       THEN received = Append(fw, [text |-> cur.text, time |-> cur.time])
       ELSE received = fw

C7_Witness ==
    /\ Len(handled) >= 2
    /\ errFwd
    /\ pc = "logHandle"

\* C8: lines_read and bytes_read of the requested path have grown, since the
\* session was constructed, by the number of lines the loop received and by
\* the sum of len(text)+1 over them, whatever the handler returned.
C8_CountsMatchReceived ==
    sess > 0 =>
      /\ readLines[path] = baseLines[path] + Len(received)
      /\ readBytes[path] =
           baseBytes[path] + SizeOf([i \in 1..Len(received) |-> received[i].text])

C8_Witness ==
    /\ sess = 2
    /\ baseLines[path] > 0
    /\ Len(received) >= 1
    /\ pc = "logHandle"

\* C9: a successful construction opens the source at the offset the store
\* holds under the resolved path at that time, at zero when it holds none.
C9_OpensAtStoredOffset ==
    [][(sess' = sess + 1) =>
         /\ filename' = ResolvedOf(path')
         /\ libPos' = (IF ResolvedOf(path') \in DOMAIN positions
                       THEN positions[ResolvedOf(path')] ELSE 0)]_vars

C9_Witness ==
    /\ sess = 2
    /\ path = SymlinkPath
    /\ startOff > 0
    /\ libPos = startOff
    /\ pc = "select"

\* C10: ReOpen is set exactly for a symlink; forwarded lines and per-path
\* metrics carry the requested path; the store is only touched under the
\* resolved path; path and resolved path are fixed while the session lives.
C10_LabelsAndKeys ==
    /\ [](sess > 0 => (reOpen <=> path = SymlinkPath))
    /\ [](sess > 0 => filename = ResolvedOf(path))
    /\ [](\A i \in 1..Len(handled) : handled[i].label = path)
    /\ [](\A l \in Labels : l # path =>
            (readLines[l] = baseLines[l] /\ readBytes[l] = baseBytes[l]))
    /\ [][\A l \in Labels : totalBytes'[l] # totalBytes[l] => l = path]_vars
    /\ [][\A k \in Paths : k # filename =>
            /\ (k \in DOMAIN positions' <=> k \in DOMAIN positions)
            /\ (k \in DOMAIN positions => positions'[k] = positions[k])]_vars
    /\ [][sess' = sess => (path' = path /\ filename' = filename)]_vars

C10_Witness ==
    /\ path = SymlinkPath
    /\ reOpen
    /\ Len(handled) > 0
    /\ filename \in DOMAIN positions
    /\ totalBytes[path] > 0

\* C11: a construction that fails (at Lstat, at Readlink or at TailFile)
\* returns no session, starts no loop and no line source, and leaves the
\* files_active gauge and the positions store as they were.
C11_FailedConstruction ==
    [][(ret' # ret /\ ret' \in {"lstat", "readlink", "open"}) =>
         UNCHANGED <<sess, path, filename, reOpen, quit, done, pc, lpc,
                     filesActive, positions>>]_vars

C11_Witness ==
    /\ ret = "open"
    /\ sess = 1
    /\ spc = "returned"
    /\ filesActive = 0
    /\ filename \in DOMAIN positions

\* C12: the call of stop returns the error of t.tail.Stop(), nil when the
\* source ended without one, never the error of markPosition; and whichever it
\* returns, quit was closed, done was waited for and files_active goes down
\* by one.
C12_StopReturnsTailError ==
    [][(spc = "join" /\ spc' = "returned") =>
         /\ ret' = (IF lpc = "failed" THEN "tailErr" ELSE "nil")
         /\ quit
         /\ done
         /\ pc = "exited"
         /\ filesActive' = filesActive - 1]_vars

C12_Witness ==
    /\ spc = "returned"
    /\ ret = "tailErr"
    /\ sess = 1
    /\ cleaned = "no"
    /\ filename \notin DOMAIN positions
    /\ Len(handled) > 0
    /\ filesActive = 0

\* C13: the loop exits only from its select, on quit closed or on Lines
\* closed, and closes done as it does; after a failed stat, a failed Tell, a
\* line with Err set or a failed Handle it is at its select again, not exited.
C13_LoopExitsOnlyOnQuitOrClose ==
    /\ [][(pc' = "exited" /\ pc # "exited") =>
            (pc = "select" /\ (quit \/ LinesClosed) /\ done')]_vars
    /\ [][(pc \in {"logStat", "logTell", "logHandle"} /\ pc' # pc) =>
            (pc' = "select" /\ ~done')]_vars
    /\ [][(pc = "handle" /\ cur.err /\ pc' # pc) =>
            (pc' \in {"select", "logHandle"} /\ ~done')]_vars
    /\ [](done <=> pc = "exited")

C13_Witness ==
    /\ pc = "logTell"
    /\ errFwd
    /\ Len(handled) = 2
    /\ ~done
    /\ ~quit

\* The store after a step differs from the store before it at most in the
\* entry of the resolved path, which is off.
EntryBecomes(off) ==
    /\ DOMAIN positions' = DOMAIN positions \cup {filename}
    /\ positions'[filename] = off
    /\ \A k \in DOMAIN positions : k # filename => positions'[k] = positions[k]

\* C14: a markPosition whose Tell fails hands the error to its caller (the
\* loop logs it, stop keeps it in err) and does not touch the store; one whose
\* Tell succeeds makes the entry of the resolved path the offset it read; one
\* that read the offset the entry already holds leaves the store as it is; and
\* the store entry is written by nothing but the Put of a markPosition.
C14_MarkPosition ==
    /\ [][(pc = "tickTell" /\ pc' = "logTell") =>
            (positions' = positions /\ tickPos' = NoOffset)]_vars
    /\ [][(spc = "tell" /\ spc' = "kill") =>
            (positions' = positions /\ stopErr' = "tellErr"
             /\ stopPos' = NoOffset)]_vars
    /\ [][(pc = "tickPut" /\ pc' # pc) => EntryBecomes(tickPos)]_vars
    /\ [][(spc = "put" /\ spc' # spc) => EntryBecomes(stopPos)]_vars
    /\ [][(/\ pc = "tickPut"
           /\ pc' # pc
           /\ filename \in DOMAIN positions
           /\ positions[filename] = tickPos) => positions' = positions]_vars
    /\ [][(/\ spc = "put"
           /\ spc' # spc
           /\ filename \in DOMAIN positions
           /\ positions[filename] = stopPos) => positions' = positions]_vars
    /\ [][positions' # positions =>
            \/ (pc = "tickPut" /\ pc' = "select")
            \/ (spc = "put" /\ spc' = "kill")
            \/ filename \notin DOMAIN positions']_vars
    /\ [](pc = "tickPut" <=> tickPos # NoOffset)
    /\ [](spc = "put" <=> stopPos # NoOffset)

C14_Witness ==
    /\ spc = "kill"
    /\ pc = "logTell"
    /\ stopPutOff > 0
    /\ tickPutOff = stopPutOff
    /\ filename \in DOMAIN positions
    /\ positions[filename] = stopPutOff

\* C15 as stated: a tick whose stat failed still goes on to markPosition
\* once the failure is logged.
C15_MarksOnEveryTick ==
    [][(pc = "logStat" /\ pc' # pc) => pc' = "tickTell"]_vars

\* C15 as amended: a tick whose stat succeeded sets total_bytes of the
\* requested path to the file's size and calls markPosition, which writes the
\* offset Tell returned when Tell succeeds; a tick whose stat failed changes
\* neither the gauge nor the store and the loop selects again.
C15_MarksWhenStatSucceeds ==
    /\ [][(pc = "select" /\ pc' = "tickTell") =>
            (totalBytes'[path] = FileSize /\ positions' = positions)]_vars
    /\ [][(pc = "tickTell" /\ pc' # pc) =>
            \/ pc' = "logTell"
            \/ /\ pc' = "tickPut"
               /\ (tickPos' = libPos \/ (LinesClosed /\ tickPos' = 0))]_vars
    /\ [][(pc = "tickPut" /\ pc' # pc) =>
            (pc' = "select" /\ filename \in DOMAIN positions'
             /\ positions'[filename] = tickPos)]_vars
    /\ [][(pc = "select" /\ pc' = "logStat") =>
            (totalBytes' = totalBytes /\ positions' = positions)]_vars
    /\ [][(pc = "logStat" /\ pc' # pc) =>
            (pc' = "select" /\ totalBytes' = totalBytes
             /\ positions' = positions)]_vars

C15_Witness ==
    /\ pc = "logStat"
    /\ sess = 1
    /\ cleaned = "no"
    /\ spc = "idle"
    /\ lpc = "read"
    /\ libPos > 0
    /\ Len(handled) > 0
    /\ filename \notin DOMAIN positions
    /\ totalBytes[path] = 0

\* C16: a session that started with no entry in the store, on a file to
\* which finitely many lines are appended, with no I/O error and nobody
\* stopping it, comes to hold under the resolved path the total length of the
\* file (the sum of len(text)+1 over its lines) and holds it from then on.
C16_EventuallyMarksAll ==
    <>[](sess = 1 =>
           (filename \in DOMAIN positions /\ positions[filename] = FileSize))

C16_Witness ==
    /\ sess = 1
    /\ startOff = 0
    /\ Len(file) = 2
    /\ Len(handled) = 2
    /\ pc = "select"
    /\ filename \in DOMAIN positions
    /\ positions[filename] = FileSize
    /\ readBytes[path] = FileSize

\* C17: every step in which the loop exits closes done, and a call of stop
\* returns.
C17_StopReturns ==
    /\ [][(pc' = "exited" /\ pc # "exited") => (done' /\ ~done)]_vars
    /\ (spc = "tell") ~> (spc = "returned")

\* The first call of stop on a session returns.
FirstStopReturns == (spc = "tell" /\ stopCalls = 1) ~> (spc = "returned")

\* C18: whatever the owner calls on a session, stop more than once included,
\* no channel that is closed is closed again: close(t.quit) never panics.
C18_SignalsClosedOnce == ~panicked

\* C19: files_active is the number of sessions constructed less the number
\* of calls of stop that got past <-t.done, and is not negative; a loop that
\* exited by itself leaves the gauge counting its session until stop is past
\* <-t.done.
C19_ActiveCountsLiveSessions ==
    /\ filesActive = sess - joined
    /\ filesActive >= 0
    /\ (pc = "exited" /\ stopCalls <= 1 /\ spc # "returned") => filesActive = 1

C19_Witness ==
    /\ sess = 2
    /\ joined = 1
    /\ pc = "exited"
    /\ lpc = "failed"
    /\ spc = "idle"
    /\ stopCalls = 0
    /\ filesActive = 1

\* C20: once the loop has returned because Lines was closed, no tick sets
\* total_bytes or writes the entry (only stop's markPosition and cleanup touch
\* the store); the call of stop that follows calls markPosition and then finds
\* every statement that could block ready: the source has ended when it is at
\* t.tail.Stop(), quit is open when it closes it, done is closed when it
\* waits for it, and it returns with quit closed.
C20_StopAfterLoopExit ==
    /\ [][(pc = "exited" /\ pc' = "exited") =>
            /\ totalBytes' = totalBytes
            /\ \/ positions' = positions
               \/ (spc = "put" /\ spc' = "kill")
               \/ filename \notin DOMAIN positions']_vars
    /\ [](pc = "exited" => tickPos = NoOffset)
    /\ []((pc = "exited" /\ stopCalls = 1) =>
            /\ (spc # "tell" => marked)
            /\ (spc = "wait" => LinesClosed)
            /\ (spc = "close" => ~quit)
            /\ (spc = "join" => (quit /\ done))
            /\ (spc = "returned" => (quit /\ done)))

C20_Witness ==
    /\ pc = "exited"
    /\ lpc = "failed"
    /\ stopCalls = 1
    /\ spc = "returned"
    /\ ret = "tailErr"
    /\ marked
    /\ quit
    /\ Len(handled) > 0
    /\ filename \in DOMAIN positions
    /\ totalBytes[path] > 0

=============================================================================
